---- MODULE Spec2Model ----
(***************************************************************************)
(* Model of the WebSocketManager singleton of webui/src/utils/api.ts       *)
(* (class WebSocketManager and the module-level auto-connect).             *)
(*                                                                         *)
(* One action per handler of the class: the public methods (connect, on,   *)
(* off, send, disconnect, isConnected), the four transport callbacks       *)
(* installed by connectWebSocket (onopen, onmessage, onclose, onerror) and *)
(* the two kinds of timer callback (the reconnect timeout of               *)
(* handleReconnect and the heartbeat timeout of sendHeartbeat).            *)
(* JavaScript runs every handler to completion on one event loop, so each  *)
(* handler is one atomic step.  Time is abstracted: a pending timer may    *)
(* fire at any later step.                                                 *)
(*                                                                         *)
(* The variables lastOp, written, invoked, console and returned hold what  *)
(* the last step did (its handler, its ws.send calls, its listener calls,  *)
(* its log lines, its return value); everOpened, closes, callerConnects    *)
(* and currentOpened are history variables.                                *)
(*                                                                         *)
(* Four specifications run the manager's handlers over different inputs:  *)
(*   Spec          every handler, connect() from callers included, few     *)
(*                 transports, one topic and one callback;                 *)
(*   SpecRetry     Spec, with pending reconnect timers that do fire;       *)
(*   SpecBackoff   connect() called by the auto-connect and the reconnect  *)
(*                 timers only, chains of MaxTransports transports;        *)
(*   SpecDispatch  every topic, callback and frame on the auto-connected   *)
(*                 transport, before any reconnect timer fires.            *)
(* Two more run the pages' own handlers, which do not touch the manager:   *)
(*   SpecLogs      the Logs page (pages/Logs.tsx): autoRefresh, the effect *)
(*                 that opens /api/logs/stream, and the log buffer;        *)
(*   SpecTasks     the Tasks page (pages/Tasks.tsx): the cached task list  *)
(*                 and handleTaskUpdate.                                   *)
(***************************************************************************)
EXTENDS Integers, Sequences, FiniteSets, TLC

\* ------------------------------------------------------------------ bounds
MaxTransports == 6        \* WebSocket objects constructed in SpecBackoff
MaxSockets == 3           \* WebSocket objects constructed in Spec
MaxCallerConnects == 1    \* connect() calls in Spec made by code other than the auto-connect and the timers
MaxListeners == 3         \* registered callbacks, all topics together, in SpecDispatch
MaxFewListeners == 1      \* registered callbacks in Spec and SpecBackoff
MaxLogSockets == 3        \* WebSocket objects the Logs page constructs in SpecLogs
MaxArrivals == 102        \* log entries received in SpecLogs
MaxTasks == 2             \* tasks in the cache in SpecTasks

\* ------------------------------------------------------- program constants
maxReconnectAttempts == 5
reconnectDelay == 1000
logSliceKeep == 99        \* prev.slice(-99)

\* ------------------------------------------------------------ input domains
Transports == 1..MaxTransports    \* MaxSockets <= MaxTransports
LogSockets == 1..MaxLogSockets
Topics == {"x", "y"}
\* "A" returns normally, "B" throws, "U" is a one-shot listener: its body
\* calls wsManager.off(OneShotTopic, U).
Callbacks == {"A", "B", "U"}
OneShotTopic == "x"
\* values of the data field of an inbound object: absent, a falsy value, a truthy value
DataValues == {"absent", "zero", "obj"}
\* raw frames: text that is not JSON, the JSON texts null and 7, and JSON objects
Frames ==
    {[json |-> j, type |-> "absent", data |-> "absent"] : j \in {"invalid", "null", "number"}}
    \cup {[json |-> "object", type |-> t, data |-> d] : t \in Topics \cup {"absent"}, d \in DataValues}
NoFrame == [json |-> "none", type |-> "absent", data |-> "absent"]
OutboundMessages == {"m1"}
Ping == "ping"

VARIABLES
    loaded,             \* the module body (line 260, wsManager.connect()) has run
    socket,             \* this.socket
    ws,                 \* (this as any).ws: 0 is undefined, else the transport's number
    readyState,         \* readyState of every WebSocket constructed so far ("none": not constructed)
    reconnectAttempts,  \* this.reconnectAttempts
    listeners,          \* this.listeners: topic -> sequence of callbacks (<<>>: no entry or empty array)
    reconnectTimers,    \* pending setTimeout(() => this.connect(), d): the delays, in scheduling order
    heartbeatTimer,     \* pending setTimeout(heartbeat, 30000) of the closure made for transport t
    lastOp,             \* the handler that ran in the last step, and the transport whose event it handled
    written,            \* ws.send calls of the last step: sequence of [t, msg]
    invoked,            \* listener calls of the last step: sequence of [cb, payload, threw]
    console,            \* console.* calls of the last step
    returned,           \* return value of the last step's public method
    everOpened,         \* history: some transport's open event has been handled
    closes,             \* history: close events handled since the last open event (or since creation)
    callerConnects,     \* history: connect() calls made by callers other than auto-connect and timers
    currentOpened,      \* history: the open event of the transport now in ws has been handled
    logsMounted,        \* Logs page: "never" mounted, "mounted" or "unmounted"
    autoRefresh,        \* Logs page: useState(false)
    logSockets,         \* Logs page: readyState of every /api/logs/stream WebSocket constructed so far
    effectWs,           \* Logs page: the ws the cleanup of the last effect run will close (0: none)
    wsConnected,        \* Logs page: useState(false), set by the stream's onopen and onclose
    realTimeLogs,       \* Logs page: useState([]), the entries received from the stream
    arrivals,           \* history: log_entry messages received so far; the n-th carries the data n
    tasksCache          \* Tasks page: the query data under the key 'tasks': [defined, tasks]

vars == <<loaded, socket, ws, readyState, reconnectAttempts, listeners, reconnectTimers,
          heartbeatTimer, lastOp, written, invoked, console, returned, everOpened, closes,
          callerConnects, currentOpened,
          logsMounted, autoRefresh, logSockets, effectWs, wsConnected, realTimeLogs, arrivals,
          tasksCache>>

\* the state of the pages, which the handlers of the manager leave alone, and
\* the manager's own state, which the pages' own handlers leave alone
pageVars == <<logsMounted, autoRefresh, logSockets, effectWs, wsConnected, realTimeLogs,
              arrivals, tasksCache>>
managerVars == <<loaded, socket, ws, readyState, reconnectAttempts, listeners, reconnectTimers,
                 heartbeatTimer, written, invoked, returned, everOpened, closes,
                 callerConnects, currentOpened>>

\* ------------------------------------------------------------------ helpers
NumTransports == Cardinality({t \in Transports : readyState[t] # "none"})
RemoveAt(s, i) == [j \in 1..(Len(s) - 1) |-> IF j < i THEN s[j] ELSE s[j + 1]]
NumListeners(reg) == Len(reg["x"]) + Len(reg["y"])

Op(name, t) == [op |-> name, t |-> t]

Init ==
    /\ loaded = FALSE
    /\ socket = "null"
    /\ ws = 0
    /\ readyState = [t \in Transports |-> "none"]
    /\ reconnectAttempts = 0
    /\ listeners = [T \in Topics |-> <<>>]
    /\ reconnectTimers = <<>>
    /\ heartbeatTimer = [t \in Transports |-> FALSE]
    /\ lastOp = Op("new", 0)
    /\ written = <<>>
    /\ invoked = <<>>
    /\ console = <<>>
    /\ returned = "void"
    /\ everOpened = FALSE
    /\ closes = 0
    /\ callerConnects = 0
    /\ currentOpened = FALSE
    /\ logsMounted = "never"
    /\ autoRefresh = FALSE
    /\ logSockets = [k \in LogSockets |-> "none"]
    /\ effectWs = 0
    /\ wsConnected = FALSE
    /\ realTimeLogs = <<>>
    /\ arrivals = 0
    /\ tasksCache = [defined |-> FALSE, tasks |-> <<>>]

\* ------------------------------------------------------------- connect()
\* a guard that reads the transport in ws instead
SocketConnectedByReadyState == ws # 0 /\ readyState[ws] = "OPEN"

\* this.socket?.connected: this.socket is declared null and assigned nowhere.
SocketConnected == IF socket = "null" THEN FALSE ELSE socket = "connected"

\* connectWebSocket(): const ws = new WebSocket(wsUrl); ...; (this as any).ws = ws
ConnectWebSocket ==
    LET n == NumTransports + 1 IN
    /\ readyState' = [readyState EXCEPT ![n] = "CONNECTING"]
    /\ ws' = n
    /\ currentOpened' = FALSE

\* connect(): the guard, the log line, connectWebSocket()
ConnectBody ==
    IF SocketConnected
    THEN /\ UNCHANGED <<ws, readyState, currentOpened>>
         /\ console' = <<>>
    ELSE /\ ConnectWebSocket
         /\ console' = <<"Connecting to WebSocket...">>

\* line 260: wsManager.connect() when the module is first evaluated
ModuleLoad ==
    /\ ~loaded
    /\ loaded' = TRUE
    /\ ConnectBody
    /\ lastOp' = Op("autoConnect", 0)
    /\ written' = <<>> /\ invoked' = <<>> /\ returned' = "void"
    /\ UNCHANGED <<socket, reconnectAttempts, listeners, reconnectTimers, heartbeatTimer,
                   everOpened, closes, callerConnects>>
    /\ UNCHANGED pageVars

\* connect() called by any other code
Connect ==
    /\ loaded
    /\ ConnectBody
    /\ callerConnects' = callerConnects + 1
    /\ lastOp' = Op("connect", 0)
    /\ written' = <<>> /\ invoked' = <<>> /\ returned' = "void"
    /\ UNCHANGED <<loaded, socket, reconnectAttempts, listeners, reconnectTimers,
                   heartbeatTimer, everOpened, closes>>
    /\ UNCHANGED pageVars

\* the callback of handleReconnect's setTimeout: () => { this.connect(); }
ReconnectTimerFires(i) ==
    /\ loaded
    /\ i \in 1..Len(reconnectTimers)
    /\ reconnectTimers' = RemoveAt(reconnectTimers, i)
    /\ ConnectBody
    /\ lastOp' = Op("reconnectTimer", 0)
    /\ written' = <<>> /\ invoked' = <<>> /\ returned' = "void"
    /\ UNCHANGED <<loaded, socket, reconnectAttempts, listeners, heartbeatTimer,
                   everOpened, closes, callerConnects>>
    /\ UNCHANGED pageVars

\* ------------------------------------------------------ sendHeartbeat(ws)
\* heartbeat(): if (ws.readyState === WebSocket.OPEN) { ws.send(ping); setTimeout(heartbeat, 30000) }
HeartbeatSendsAlways(state) == TRUE
HeartbeatSends(state) == state = "OPEN"

\* ws.onopen: this.reconnectAttempts = 0
AttemptsKept(attempts) == attempts
AttemptsAfterOpen(attempts) == 0

\* ws.onopen
OnOpen(t) ==
    /\ readyState[t] = "CONNECTING"
    /\ readyState' = [readyState EXCEPT ![t] = "OPEN"]
    /\ reconnectAttempts' = AttemptsAfterOpen(reconnectAttempts)
    /\ IF HeartbeatSends(readyState'[t])
       THEN /\ written' = <<[t |-> t, msg |-> Ping]>>
            /\ heartbeatTimer' = [heartbeatTimer EXCEPT ![t] = TRUE]
       ELSE /\ written' = <<>>
            /\ UNCHANGED heartbeatTimer
    /\ console' = <<"WebSocket connected">>
    /\ lastOp' = Op("open", t)
    /\ invoked' = <<>> /\ returned' = "void"
    /\ everOpened' = TRUE
    /\ closes' = 0
    /\ currentOpened' = (currentOpened \/ t = ws)
    /\ UNCHANGED <<loaded, socket, ws, listeners, reconnectTimers, callerConnects>>
    /\ UNCHANGED pageVars

\* a heartbeat that reads the manager's current transport instead of its own
HeartbeatTickOnCurrent(t) ==
    /\ heartbeatTimer[t]
    /\ IF ws # 0 /\ readyState[ws] = "OPEN"
       THEN /\ written' = <<[t |-> ws, msg |-> Ping]>>
            /\ UNCHANGED heartbeatTimer
       ELSE /\ written' = <<>>
            /\ heartbeatTimer' = [heartbeatTimer EXCEPT ![t] = FALSE]
    /\ lastOp' = Op("heartbeat", t)
    /\ console' = <<>> /\ invoked' = <<>> /\ returned' = "void"
    /\ UNCHANGED <<loaded, socket, ws, readyState, reconnectAttempts, listeners,
                   reconnectTimers, everOpened, closes, callerConnects, currentOpened>>
    /\ UNCHANGED pageVars

\* the callback of heartbeat's own setTimeout(heartbeat, 30000)
HeartbeatTick(t) ==
    /\ heartbeatTimer[t]
    /\ IF HeartbeatSends(readyState[t])
       THEN /\ written' = <<[t |-> t, msg |-> Ping]>>
            /\ UNCHANGED heartbeatTimer
       ELSE /\ written' = <<>>
            /\ heartbeatTimer' = [heartbeatTimer EXCEPT ![t] = FALSE]
    /\ lastOp' = Op("heartbeat", t)
    /\ console' = <<>> /\ invoked' = <<>> /\ returned' = "void"
    /\ UNCHANGED <<loaded, socket, ws, readyState, reconnectAttempts, listeners,
                   reconnectTimers, everOpened, closes, callerConnects, currentOpened>>
    /\ UNCHANGED pageVars

\* ------------------------------------------------------ handleReconnect()
ShouldReconnectOnceMore(attempts) == attempts <= maxReconnectAttempts
ShouldReconnect(attempts) == attempts < maxReconnectAttempts
\* this.reconnectDelay * this.reconnectAttempts, read after the increment
ReconnectDelayExponential(attempts) == reconnectDelay * 2 ^ (attempts - 1)
ReconnectDelayFor(attempts) == reconnectDelay * attempts

HandleReconnect ==
    IF ShouldReconnect(reconnectAttempts)
    THEN /\ reconnectAttempts' = reconnectAttempts + 1
         /\ reconnectTimers' = Append(reconnectTimers, ReconnectDelayFor(reconnectAttempts + 1))
         /\ console' = <<"WebSocket disconnected", "Attempting to reconnect...">>
    ELSE /\ UNCHANGED <<reconnectAttempts, reconnectTimers>>
         /\ console' = <<"WebSocket disconnected", "Max reconnection attempts reached">>

\* ws.onclose: the close event of transport t (the connection failed, the
\* peer or the network closed it, or the closing handshake of close() ended)
OnClose(t) ==
    /\ readyState[t] \in {"CONNECTING", "OPEN", "CLOSING"}
    /\ readyState' = [readyState EXCEPT ![t] = "CLOSED"]
    /\ HandleReconnect
    /\ lastOp' = Op("close", t)
    /\ written' = <<>> /\ invoked' = <<>> /\ returned' = "void"
    /\ closes' = closes + 1
    /\ UNCHANGED <<loaded, socket, ws, listeners, heartbeatTimer, everOpened, callerConnects, currentOpened>>
    /\ UNCHANGED pageVars

\* an error handler that starts the recovery itself
OnErrorReconnects(t) ==
    /\ readyState[t] \in {"CONNECTING", "OPEN", "CLOSING"}
    /\ IF reconnectAttempts < maxReconnectAttempts
       THEN /\ reconnectAttempts' = reconnectAttempts + 1
            /\ reconnectTimers' = Append(reconnectTimers, reconnectDelay * (reconnectAttempts + 1))
       ELSE UNCHANGED <<reconnectAttempts, reconnectTimers>>
    /\ console' = <<"WebSocket error:">>
    /\ lastOp' = Op("error", t)
    /\ written' = <<>> /\ invoked' = <<>> /\ returned' = "void"
    /\ UNCHANGED <<loaded, socket, ws, readyState, listeners, heartbeatTimer, everOpened,
                   closes, callerConnects, currentOpened>>
    /\ UNCHANGED pageVars

\* ws.onerror: console.error only
OnError(t) ==
    /\ readyState[t] \in {"CONNECTING", "OPEN", "CLOSING"}
    /\ console' = <<"WebSocket error:">>
    /\ lastOp' = Op("error", t)
    /\ written' = <<>> /\ invoked' = <<>> /\ returned' = "void"
    /\ UNCHANGED <<loaded, socket, ws, readyState, reconnectAttempts, listeners,
                   reconnectTimers, heartbeatTimer, everOpened, closes, callerConnects, currentOpened>>
    /\ UNCHANGED pageVars

\* ------------------------------------------------------------ on() / off()
\* on(event, callback): create the topic's array if missing, push
On(T, cb) ==
    /\ loaded
    /\ listeners' = [listeners EXCEPT ![T] = Append(@, cb)]
    /\ lastOp' = Op("on", 0)
    /\ written' = <<>> /\ invoked' = <<>> /\ console' = <<>> /\ returned' = "void"
    /\ UNCHANGED <<loaded, socket, ws, readyState, reconnectAttempts, reconnectTimers,
                   heartbeatTimer, everOpened, closes, callerConnects, currentOpened>>
    /\ UNCHANGED pageVars

LastIndexOf(s, cb) ==
    IF \E i \in 1..Len(s) : s[i] = cb
    THEN CHOOSE i \in 1..Len(s) : s[i] = cb /\ \A j \in (i + 1)..Len(s) : s[j] # cb
    ELSE 0

\* Array.prototype.indexOf with ===: the least index holding cb, 0 for JavaScript's -1
IndexOf(s, cb) ==
    IF \E i \in 1..Len(s) : s[i] = cb
    THEN CHOOSE i \in 1..Len(s) : s[i] = cb /\ \A j \in 1..(i - 1) : s[j] # cb
    ELSE 0

\* the body of off(): indexOf, then splice(index, 1) when index > -1
OffArray(s, cb) == IF IndexOf(s, cb) > 0 THEN RemoveAt(s, IndexOf(s, cb)) ELSE s

\* an off() that removes the callback from the sequence of every topic
OffEveryTopic(T, cb) ==
    /\ loaded
    /\ listeners' = [T2 \in Topics |-> OffArray(listeners[T2], cb)]
    /\ lastOp' = Op("off", 0)
    /\ written' = <<>> /\ invoked' = <<>> /\ console' = <<>> /\ returned' = "void"
    /\ UNCHANGED <<loaded, socket, ws, readyState, reconnectAttempts, reconnectTimers,
                   heartbeatTimer, everOpened, closes, callerConnects, currentOpened>>
    /\ UNCHANGED pageVars

\* off(event, callback)
Off(T, cb) ==
    /\ loaded
    /\ listeners' = [listeners EXCEPT ![T] = OffArray(@, cb)]
    /\ lastOp' = Op("off", 0)
    /\ written' = <<>> /\ invoked' = <<>> /\ console' = <<>> /\ returned' = "void"
    /\ UNCHANGED <<loaded, socket, ws, readyState, reconnectAttempts, reconnectTimers,
                   heartbeatTimer, everOpened, closes, callerConnects, currentOpened>>
    /\ UNCHANGED pageVars

\* ---------------------------------------------- onmessage / handleMessage
\* JSON.parse(event.data) throws a SyntaxError on text that is not JSON
ParseThrows(frame) == frame.json = "invalid"
\* message.type is a TypeError when the parsed value is null
TypeThrows(frame) == frame.json = "null"
\* a dispatch that sends every message without a topic of its own to topic "x"
TopicOfWithDefault(frame) ==
    IF frame.json = "object" /\ frame.type \in Topics THEN frame.type ELSE "x"

\* message.type: undefined ("absent") on a number and on an object without the field
TopicOf(frame) == IF frame.json = "object" THEN frame.type ELSE "absent"
Truthy(d) == d = "obj"
\* message.data || message
PayloadOf(frame) ==
    IF frame.json = "object" /\ Truthy(frame.data)
    THEN [envelope |-> FALSE, json |-> "object", type |-> "", data |-> frame.data]
    ELSE [envelope |-> TRUE, json |-> frame.json, type |-> frame.type, data |-> frame.data]

\* what the body of a listener does to the registry, and whether it throws
ListenerThrows(cb) == cb = "B"
ListenerEffect(cb, reg) ==
    IF cb = "U" THEN [reg EXCEPT ![OneShotTopic] = OffArray(@, cb)] ELSE reg

\* try { listener(payload) } catch { console.error }: forEach goes on with the next index
AfterThrowStop(k, len) == len + 1
AfterThrow(k, len) == k + 1

\* a loop over the same array from its last index down to its first
RECURSIVE ForEachReversed(_, _, _, _, _, _)
ForEachReversed(k, len, T, payload, reg, calls) ==
    IF k > len THEN [listeners |-> reg, invoked |-> calls]
    ELSE IF len + 1 - k > Len(reg[T]) THEN ForEachReversed(k + 1, len, T, payload, reg, calls)
    ELSE LET cb == reg[T][len + 1 - k]
             call == [cb |-> cb, payload |-> payload, threw |-> ListenerThrows(cb)]
         IN ForEachReversed(k + 1, len, T, payload, ListenerEffect(cb, reg), Append(calls, call))

\* listeners.forEach(...) over the array of topic T, from index k: the length
\* is read once, before the first call; an index the array no longer has is
\* skipped; off() splices the array being iterated in place.
RECURSIVE ForEach(_, _, _, _, _, _)
ForEach(k, len, T, payload, reg, calls) ==
    IF k > len THEN [listeners |-> reg, invoked |-> calls]
    ELSE IF k > Len(reg[T]) THEN ForEach(k + 1, len, T, payload, reg, calls)
    ELSE LET cb == reg[T][k]
             call == [cb |-> cb, payload |-> payload, threw |-> ListenerThrows(cb)]
         IN ForEach(IF ListenerThrows(cb) THEN AfterThrow(k, len) ELSE k + 1,
                    len, T, payload, ListenerEffect(cb, reg), Append(calls, call))

\* handleMessage(message): this.listeners.get(message.type) || [], then forEach
HandleMessage(frame) ==
    IF TopicOf(frame) \in Topics
    THEN ForEach(1, Len(listeners[TopicOf(frame)]), TopicOf(frame), PayloadOf(frame),
                 listeners, <<>>)
    ELSE [listeners |-> listeners, invoked |-> <<>>]

RECURSIVE ListenerErrors(_)
ListenerErrors(calls) ==
    IF calls = <<>> THEN <<>>
    ELSE (IF Head(calls).threw THEN <<"Error in WebSocket listener:">> ELSE <<>>)
         \o ListenerErrors(Tail(calls))

\* the catch block of ws.onmessage: console.error, and the frame is dropped
DroppedFrame(frame) ==
    [listeners |-> listeners, invoked |-> <<>>,
     console |-> <<"Failed to parse WebSocket message:">>]
DispatchedAsError(frame) ==
    [listeners |-> HandleMessage([json |-> "object", type |-> "x", data |-> "absent"]).listeners,
     invoked |-> HandleMessage([json |-> "object", type |-> "x", data |-> "absent"]).invoked,
     console |-> <<"Failed to parse WebSocket message:">>]
OnParseError(frame) == DroppedFrame(frame)

\* the outcome of ws.onmessage on a frame: the registry, the calls made and the log
Decode(frame) ==
    IF ParseThrows(frame)
    THEN OnParseError(frame)
    ELSE IF TypeThrows(frame)
    THEN [listeners |-> listeners, invoked |-> <<>>,
          console |-> <<"Received WebSocket message:", "Failed to parse WebSocket message:">>]
    ELSE [listeners |-> HandleMessage(frame).listeners,
          invoked |-> HandleMessage(frame).invoked,
          console |-> <<"Received WebSocket message:">> \o ListenerErrors(HandleMessage(frame).invoked)]

\* ws.onmessage: a message event of transport t (delivered only while it is OPEN)
OnMessage(t, frame) ==
    /\ readyState[t] = "OPEN"
    /\ listeners' = Decode(frame).listeners
    /\ invoked' = Decode(frame).invoked
    /\ console' = Decode(frame).console
    /\ lastOp' = Op("message", t)
    /\ written' = <<>> /\ returned' = "void"
    /\ UNCHANGED <<loaded, socket, ws, readyState, reconnectAttempts, reconnectTimers,
                   heartbeatTimer, everOpened, closes, callerConnects, currentOpened>>
    /\ UNCHANGED pageVars

\* ---------------------------------------- send / disconnect / isConnected
\* send(message): ws.readyState === WebSocket.OPEN
SendGuardAnyState(state) == TRUE
SendGuard(state) == state = "OPEN"

\* send(message)
Send(m) ==
    /\ loaded
    /\ IF ws # 0 /\ SendGuard(readyState[ws])
       THEN /\ written' = <<[t |-> ws, msg |-> m]>>
            /\ console' = <<>>
       ELSE /\ written' = <<>>
            /\ console' = <<"WebSocket is not connected">>
    /\ lastOp' = Op("send", 0)
    /\ invoked' = <<>> /\ returned' = "void"
    /\ UNCHANGED <<loaded, socket, ws, readyState, reconnectAttempts, listeners,
                   reconnectTimers, heartbeatTimer, everOpened, closes, callerConnects, currentOpened>>
    /\ UNCHANGED pageVars

\* WebSocket.close(): CONNECTING and OPEN become CLOSING (the close event
\* comes later); CLOSING and CLOSED are left alone
CloseCall(state) == IF state \in {"CONNECTING", "OPEN"} THEN "CLOSING" ELSE state

\* this.listeners.clear()
ClearedOneTopic(reg) == [reg EXCEPT !["y"] = <<>>]
Cleared(reg) == [T \in Topics |-> <<>>]

\* a disconnect() that also starts the attempts afresh
DisconnectResets ==
    /\ loaded
    /\ readyState' = IF ws # 0 THEN [readyState EXCEPT ![ws] = CloseCall(@)] ELSE readyState
    /\ listeners' = Cleared(listeners)
    /\ reconnectAttempts' = 0
    /\ lastOp' = Op("disconnect", 0)
    /\ written' = <<>> /\ invoked' = <<>> /\ console' = <<>> /\ returned' = "void"
    /\ UNCHANGED <<loaded, socket, ws, reconnectTimers, heartbeatTimer,
                   everOpened, closes, callerConnects, currentOpened>>
    /\ UNCHANGED pageVars

\* disconnect(): if (ws) ws.close(); this.listeners.clear()
Disconnect ==
    /\ loaded
    /\ readyState' = IF ws # 0 THEN [readyState EXCEPT ![ws] = CloseCall(@)] ELSE readyState
    /\ listeners' = Cleared(listeners)
    /\ lastOp' = Op("disconnect", 0)
    /\ written' = <<>> /\ invoked' = <<>> /\ console' = <<>> /\ returned' = "void"
    /\ UNCHANGED <<loaded, socket, ws, reconnectAttempts, reconnectTimers, heartbeatTimer,
                   everOpened, closes, callerConnects, currentOpened>>
    /\ UNCHANGED pageVars

\* true as soon as any transport is open
IsConnectedAnyOpen ==
    IF \E t \in Transports : readyState[t] = "OPEN" THEN "true" ELSE "false"

\* isConnected(): return ws && ws.readyState === WebSocket.OPEN
IsConnectedValue ==
    IF ws = 0 THEN "undefined" ELSE IF readyState[ws] = "OPEN" THEN "true" ELSE "false"

IsConnected ==
    /\ loaded
    /\ returned' = IsConnectedValue
    /\ lastOp' = Op("isConnected", 0)
    /\ written' = <<>> /\ invoked' = <<>> /\ console' = <<>>
    /\ UNCHANGED <<loaded, socket, ws, readyState, reconnectAttempts, listeners,
                   reconnectTimers, heartbeatTimer, everOpened, closes, callerConnects, currentOpened>>
    /\ UNCHANGED pageVars

\* ------------------------------------------------ Logs page: the log stream
\* One instance of the Logs component: mounted once, then possibly unmounted
\* (a later mount is another instance, with state and sockets of its own).
NumLogSockets == Cardinality({k \in LogSockets : logSockets[k] # "none"})
LogFrameKinds == {"invalid", "null", "other", "log_entry"}

\* return () => { ws.close(); }: the cleanup of the effect run that made socket k
CleanupForgotten(socks, k) == socks
Cleanup(socks, k) == IF k # 0 THEN [socks EXCEPT ![k] = CloseCall(@)] ELSE socks

\* the effect body: if (!autoRefresh) return; const ws = new WebSocket(...)
EffectSockets(socks, auto) ==
    IF auto
    THEN [socks EXCEPT ![Cardinality({k \in LogSockets : socks[k] # "none"}) + 1] = "CONNECTING"]
    ELSE socks
EffectWs(socks, auto) ==
    IF auto THEN Cardinality({k \in LogSockets : socks[k] # "none"}) + 1 ELSE 0

\* the component mounts: useState(false), useState([]), and the effect runs
LogsMount ==
    /\ logsMounted = "never"
    /\ logsMounted' = "mounted"
    /\ autoRefresh' = FALSE
    /\ wsConnected' = FALSE
    /\ realTimeLogs' = <<>>
    /\ logSockets' = EffectSockets(logSockets, FALSE)
    /\ effectWs' = EffectWs(logSockets, FALSE)
    /\ lastOp' = Op("logsMount", 0)
    /\ console' = <<>>
    /\ UNCHANGED <<arrivals, tasksCache>>
    /\ UNCHANGED managerVars

\* <Switch onChange={setAutoRefresh}>: a state change re-renders, runs the
\* cleanup of the previous effect run and then the effect ([autoRefresh])
SetAutoRefresh(v) ==
    /\ logsMounted = "mounted"
    /\ v # autoRefresh
    /\ autoRefresh' = v
    /\ logSockets' = EffectSockets(Cleanup(logSockets, effectWs), v)
    /\ effectWs' = EffectWs(Cleanup(logSockets, effectWs), v)
    /\ lastOp' = Op("setAutoRefresh", 0)
    /\ console' = <<>>
    /\ UNCHANGED <<logsMounted, wsConnected, realTimeLogs, arrivals, tasksCache>>
    /\ UNCHANGED managerVars

\* the component unmounts: the cleanup of the last effect run
LogsUnmount ==
    /\ logsMounted = "mounted"
    /\ logsMounted' = "unmounted"
    /\ logSockets' = Cleanup(logSockets, effectWs)
    /\ effectWs' = 0
    /\ lastOp' = Op("logsUnmount", 0)
    /\ console' = <<>>
    /\ UNCHANGED <<autoRefresh, wsConnected, realTimeLogs, arrivals, tasksCache>>
    /\ UNCHANGED managerVars

\* ws.onopen of stream socket k (a state setter of an unmounted component does nothing)
LogOnOpen(k) ==
    /\ logSockets[k] = "CONNECTING"
    /\ logSockets' = [logSockets EXCEPT ![k] = "OPEN"]
    /\ wsConnected' = IF logsMounted = "mounted" THEN TRUE ELSE wsConnected
    /\ lastOp' = Op("logOpen", k)
    /\ console' = <<"log stream connected">>
    /\ UNCHANGED <<logsMounted, autoRefresh, effectWs, realTimeLogs, arrivals, tasksCache>>
    /\ UNCHANGED managerVars

\* prev.slice(-n): the last n elements, all of them when there are fewer
SliceLastOneMore(s, n) == IF Len(s) <= n + 1 THEN s ELSE SubSeq(s, Len(s) - n, Len(s))
SliceLast(s, n) == IF Len(s) <= n THEN s ELSE SubSeq(s, Len(s) - n + 1, Len(s))

\* setRealTimeLogs(prev => [...prev.slice(-99), message.data])
AppendLog(prev, data) == Append(SliceLast(prev, logSliceKeep), data)

\* ws.onmessage of stream socket k: JSON.parse, then message.type === 'log_entry'
LogOnMessage(k, kind) ==
    /\ logSockets[k] = "OPEN"
    /\ IF kind = "log_entry"
       THEN /\ arrivals' = arrivals + 1
            /\ realTimeLogs' = IF logsMounted = "mounted"
                               THEN AppendLog(realTimeLogs, arrivals + 1)
                               ELSE realTimeLogs
            /\ console' = <<>>
       ELSE /\ UNCHANGED <<arrivals, realTimeLogs>>
            /\ console' = IF kind \in {"invalid", "null"}
                          THEN <<"failed to parse log message">> ELSE <<>>
    /\ lastOp' = Op("logMessage", k)
    /\ UNCHANGED <<logsMounted, autoRefresh, logSockets, effectWs, wsConnected, tasksCache>>
    /\ UNCHANGED managerVars

\* ws.onclose of stream socket k: setWsConnected(false), and nothing else
LogOnClose(k) ==
    /\ logSockets[k] \in {"CONNECTING", "OPEN", "CLOSING"}
    /\ logSockets' = [logSockets EXCEPT ![k] = "CLOSED"]
    /\ wsConnected' = IF logsMounted = "mounted" THEN FALSE ELSE wsConnected
    /\ lastOp' = Op("logClose", k)
    /\ console' = <<"log stream closed">>
    /\ UNCHANGED <<logsMounted, autoRefresh, effectWs, realTimeLogs, arrivals, tasksCache>>
    /\ UNCHANGED managerVars

\* ws.onerror of stream socket k: console.error only
LogOnError(k) ==
    /\ logSockets[k] \in {"CONNECTING", "OPEN", "CLOSING"}
    /\ lastOp' = Op("logError", k)
    /\ console' = <<"log stream error">>
    /\ UNCHANGED pageVars
    /\ UNCHANGED managerVars

\* --------------------------------------------- Tasks page: handleTaskUpdate
\* A task as the page caches it: its id and two of its other fields. A
\* payload carries some of the fields ("absent": the key is not in it).
TaskIds == {"t1", "t2", "t3"}
TaskStatuses == {"running", "stopped"}
TaskProgresses == {"10%", "50%"}
Tasks == [id : TaskIds, status : TaskStatuses, progress : TaskProgresses]
TaskPayloads == [id : TaskIds \cup {"absent"}, status : TaskStatuses \cup {"absent"},
                 progress : TaskProgresses \cup {"absent"}]
TaskLists(maxLen) ==
    UNION {{s \in [1..n -> Tasks] : \A i, j \in 1..n : i # j => s[i].id # s[j].id} : n \in 0..maxLen}

\* { ...task, ...data }: the fields of data override those of task
MergeTaskWins(task, data) == task
Merge(task, data) ==
    [id |-> IF data.id # "absent" THEN data.id ELSE task.id,
     status |-> IF data.status # "absent" THEN data.status ELSE task.status,
     progress |-> IF data.progress # "absent" THEN data.progress ELSE task.progress]

\* (oldTasks) => { if (!oldTasks) return oldTasks; return oldTasks.map(...) }
UpdatedTasks(oldTasks, data) ==
    IF ~oldTasks.defined THEN oldTasks
    ELSE [defined |-> TRUE,
          tasks |-> [i \in 1..Len(oldTasks.tasks) |->
                        IF oldTasks.tasks[i].id = data.id
                        THEN Merge(oldTasks.tasks[i], data) ELSE oldTasks.tasks[i]]]

\* useQuery('tasks', ...): the task list fetched from the server becomes the query data
TasksFetched(list) ==
    /\ tasksCache' = [defined |-> TRUE, tasks |-> list]
    /\ lastOp' = Op("tasksFetched", 0)
    /\ console' = <<>>
    /\ UNCHANGED <<logsMounted, autoRefresh, logSockets, effectWs, wsConnected, realTimeLogs,
                   arrivals>>
    /\ UNCHANGED managerVars

\* handleTaskUpdate(data): queryClient.setQueryData('tasks', updater)
HandleTaskUpdate(data) ==
    /\ tasksCache' = UpdatedTasks(tasksCache, data)
    /\ lastOp' = Op("taskUpdate", 0)
    /\ console' = <<>>
    /\ UNCHANGED <<logsMounted, autoRefresh, logSockets, effectWs, wsConnected, realTimeLogs,
                   arrivals>>
    /\ UNCHANGED managerVars

\* ------------------------------------------------------------ specification
\* The bounds of the exploration: a WebSocket is constructed only while fewer
\* than maxT exist, callers call connect() at most maxC times and register a
\* callback only while fewer than maxL are registered.
MayConstruct(maxT) == SocketConnected \/ NumTransports < maxT

\* Every handler, with the callers' arguments drawn from topics, cbs and frames.
Step(maxT, maxC, maxL, topics, cbs, frames) ==
    \/ ModuleLoad
    \/ callerConnects < maxC /\ MayConstruct(maxT) /\ Connect
    \/ MayConstruct(maxT) /\ \E i \in 1..Len(reconnectTimers) : ReconnectTimerFires(i)
    \/ \E t \in Transports : OnOpen(t)
    \/ \E t \in Transports : OnClose(t)
    \/ \E t \in Transports : OnError(t)
    \/ \E t \in Transports, f \in frames : OnMessage(t, f)
    \/ \E t \in Transports : HeartbeatTick(t)
    \/ NumListeners(listeners) < maxL /\ \E T \in topics, cb \in cbs : On(T, cb)
    \/ \E T \in topics, cb \in cbs : Off(T, cb)
    \/ \E m \in OutboundMessages : Send(m)
    \/ Disconnect
    \/ IsConnected

\* The same handlers, in runs where only the auto-connect and the reconnect
\* timers call connect().
AutoStep(maxT, maxL, topics, cbs, frames) ==
    \/ ModuleLoad
    \/ MayConstruct(maxT) /\ \E i \in 1..Len(reconnectTimers) : ReconnectTimerFires(i)
    \/ \E t \in Transports : OnOpen(t)
    \/ \E t \in Transports : OnClose(t)
    \/ \E t \in Transports : OnError(t)
    \/ \E t \in Transports, f \in frames : OnMessage(t, f)
    \/ \E t \in Transports : HeartbeatTick(t)
    \/ NumListeners(listeners) < maxL /\ \E T \in topics, cb \in cbs : On(T, cb)
    \/ \E T \in topics, cb \in cbs : Off(T, cb)
    \/ \E m \in OutboundMessages : Send(m)
    \/ Disconnect
    \/ IsConnected

FewFrames == {f \in Frames : f.json = "invalid" \/ (f.type = "x" /\ f.data = "obj")}

\* Spec: the whole public interface, few transports, one topic and one callback.
Next == Step(MaxSockets, MaxCallerConnects, MaxFewListeners, {"x"}, {"A"}, FewFrames)
Spec == Init /\ [][Next]_vars

\* SpecRetry: Spec, where a retry timer that is pending does fire: the page
\* stays loaded and the event loop runs the callback of every setTimeout.
RetryFires == MayConstruct(MaxSockets) /\ \E i \in 1..Len(reconnectTimers) : ReconnectTimerFires(i)
SpecRetry == Spec /\ WF_vars(RetryFires)

\* SpecBackoff: chains of reconnections long enough to exhaust the attempts.
NextBackoff == AutoStep(MaxTransports, MaxFewListeners, {"x"}, {"A"}, FewFrames)
SpecBackoff == Init /\ [][NextBackoff]_vars

\* The registry and the dispatch on the auto-connected transport: the same
\* handlers in runs where no reconnect timer has fired yet.
DispatchStep(maxL, topics, cbs, frames) ==
    \/ ModuleLoad
    \/ \E t \in Transports : OnOpen(t)
    \/ \E t \in Transports : OnClose(t)
    \/ \E t \in Transports : OnError(t)
    \/ \E t \in Transports, f \in frames : OnMessage(t, f)
    \/ \E t \in Transports : HeartbeatTick(t)
    \/ NumListeners(listeners) < maxL /\ \E T \in topics, cb \in cbs : On(T, cb)
    \/ \E T \in topics, cb \in cbs : Off(T, cb)
    \/ \E m \in OutboundMessages : Send(m)
    \/ Disconnect
    \/ IsConnected

\* SpecDispatch: every topic, callback and frame.
NextDispatch == DispatchStep(MaxListeners, Topics, Callbacks, Frames)
SpecDispatch == Init /\ [][NextDispatch]_vars

\* SpecLogs: the Logs page and its stream, apart from the manager. A socket
\* is constructed only while fewer than maxK exist, and a log entry arrives
\* only while fewer than maxN have arrived.
LogsStep(maxK, maxN) ==
    \/ LogsMount
    \/ \E v \in BOOLEAN : (v => NumLogSockets < maxK) /\ SetAutoRefresh(v)
    \/ LogsUnmount
    \/ \E k \in LogSockets : LogOnOpen(k)
    \/ \E k \in LogSockets, kind \in LogFrameKinds :
          (kind = "log_entry" => arrivals < maxN) /\ LogOnMessage(k, kind)
    \/ \E k \in LogSockets : LogOnClose(k)
    \/ \E k \in LogSockets : LogOnError(k)

NextLogs == LogsStep(MaxLogSockets, MaxArrivals)
SpecLogs == Init /\ [][NextLogs]_vars

\* SpecTasks: the Tasks page's cache under fetches of at most maxLen tasks and
\* task_status_update payloads.
TasksStep(maxLen) ==
    \/ \E list \in TaskLists(maxLen) : TasksFetched(list)
    \/ \E data \in TaskPayloads : HandleTaskUpdate(data)

NextTasks == TasksStep(MaxTasks)
SpecTasks == Init /\ [][NextTasks]_vars

\* ------------------------------------------------------------------ claims
IsConnectCall(op) == op.op \in {"autoConnect", "connect", "reconnectTimer"}
Connected == ws # 0 /\ readyState[ws] = "OPEN"
PingOn(t) == [t |-> t, msg |-> "ping"]

\* C1: connect() is idempotent: a call to connect() made while the manager's
\* transport is open constructs no new transport.
C1_ConnectIdempotent ==
    [][(IsConnectCall(lastOp') /\ Connected) => NumTransports' = NumTransports]_vars

\* C2: after an explicit disconnect() no reconnection is attempted: the close
\* event of the transport that disconnect() closed schedules no retry timer.
C2_NoReconnectAfterDisconnect ==
    [][\A t \in Transports :
          (readyState[t] = "CLOSING" /\ readyState'[t] = "CLOSED")
              => reconnectTimers' = reconnectTimers]_vars

\* C3: backoff sequence: from a fresh manager with no open event so far, the
\* k-th close event (k = 1..5) schedules exactly one retry, of 1000*k ms, and
\* the 6th close event schedules none and logs that the attempts are exhausted.
C3_BackoffSequence ==
    [][(lastOp'.op = "close" /\ ~everOpened) =>
          IF closes' <= 5
          THEN reconnectTimers' = Append(reconnectTimers, 1000 * closes')
          ELSE /\ reconnectTimers' = reconnectTimers
               /\ \E i \in 1..Len(console') : console'[i] = "Max reconnection attempts reached"]_vars

C3_Witness ==
    /\ lastOp.op = "close" /\ ~everOpened /\ closes = 6
    /\ reconnectTimers = <<>>
    /\ console = <<"WebSocket disconnected", "Max reconnection attempts reached">>

\* C4: reset on success: an open event sets the attempt counter to 0 whatever
\* it was, and the first close event after an open event schedules a retry of
\* 1000 ms.
C4_ResetOnSuccess ==
    [][/\ lastOp'.op = "open" => reconnectAttempts' = 0
       /\ (lastOp'.op = "close" /\ everOpened /\ closes = 0)
              => reconnectTimers' = Append(reconnectTimers, 1000)]_vars

C4_Witness ==
    /\ lastOp.op = "close" /\ everOpened /\ closes = 1
    /\ NumTransports = 6 /\ lastOp.t = 6
    /\ reconnectAttempts = 1
    /\ reconnectTimers = <<1000>>

\* C5: exhaustion is terminal: when no transport ever opens, the 6th close
\* event (the initial attempt and 5 retries) leaves 6 transports, all closed,
\* and no reconnect timer; and from a state with no pending reconnect timer and
\* no transport that is not closed, no step constructs a transport.
Quiescent ==
    /\ loaded
    /\ reconnectTimers = <<>>
    /\ \A t \in Transports : readyState[t] \in {"none", "CLOSED"}

C5_ExhaustionTerminal ==
    [][/\ (~everOpened' /\ closes' >= 6) => (Quiescent' /\ NumTransports' = 6 /\ closes' = 6)
       /\ Quiescent => NumTransports' = NumTransports]_vars

C5_Witness ==
    /\ ~everOpened /\ closes = 6 /\ Quiescent
    /\ NumTransports = 6 /\ reconnectAttempts = 5
    /\ lastOp.op \in {"send", "isConnected", "disconnect", "on", "off"}

\* C6: heartbeat cadence: the open event of a transport writes exactly one
\* ping on it; a heartbeat tick of a transport that is open writes exactly one
\* ping on it and leaves the next tick scheduled; nothing is ever written on a
\* transport that has closed.
C6_HeartbeatCadence ==
    /\ lastOp.op = "open" => (written = <<PingOn(lastOp.t)>> /\ heartbeatTimer[lastOp.t])
    /\ (lastOp.op = "heartbeat" /\ readyState[lastOp.t] = "OPEN")
           => (written = <<PingOn(lastOp.t)>> /\ heartbeatTimer[lastOp.t])
    /\ \A i \in 1..Len(written) : readyState[written[i].t] # "CLOSED"

C6_Witness ==
    /\ lastOp.op = "heartbeat"
    /\ readyState[lastOp.t] = "OPEN"
    /\ written = <<PingOn(lastOp.t)>>
    /\ \E t \in Transports : readyState[t] = "CLOSED" /\ heartbeatTimer[t]

\* A listener of topic T that unsubscribes from T while T is being dispatched
\* (the one-shot listener registered on its own topic).
Unsubscribing(T) == T = OneShotTopic /\ \E i \in 1..Len(listeners[T]) : listeners[T][i] = "U"
\* A listener of T whose body calls off() at all.
CallsOff(T) == \E i \in 1..Len(listeners[T]) : listeners[T][i] = "U"
Cbs(calls) == [i \in 1..Len(calls) |-> calls[i].cb]
SomeThrew(calls) == \E i \in 1..Len(calls) : calls[i].threw

RemovesFirst(before, after, cb) ==
    \E i \in 1..Len(before) :
        /\ before[i] = cb
        /\ \A j \in 1..(i - 1) : before[j] # cb
        /\ Len(after) = Len(before) - 1
        /\ \A j \in 1..(i - 1) : after[j] = before[j]
        /\ \A j \in i..Len(after) : after[j] = before[j + 1]

C9_UnregisterFirst ==
    [][/\ lastOp'.op = "off" => \A T \in Topics, cb \in Callbacks :
              Off(T, cb) =>
                  /\ IF \E i \in 1..Len(listeners[T]) : listeners[T][i] = cb
                     THEN RemovesFirst(listeners[T], listeners'[T], cb)
                     ELSE listeners'[T] = listeners[T]
                  /\ \A T2 \in Topics \ {T} : listeners'[T2] = listeners[T2]
       /\ lastOp'.op = "message" => \A t \in {lastOp'.t} :
              (OnMessage(t, [json |-> "object", type |-> "x", data |-> "obj"])
               /\ listeners["x"] = <<"B">>)
                  => Cbs(invoked') = <<"B">>]_vars

C9_Witness ==
    /\ lastOp.op = "off"
    /\ listeners["x"] = <<"B", "A">>
    /\ listeners["y"] = <<>>

\* C10: decode resilience: a frame that is not JSON calls no listener, leaves
\* the transport open and changes neither the transport states, the attempt
\* counter, the timers nor the registry, so that the next frame on that
\* transport is handled as any other.
C10_DecodeResilience ==
    [][lastOp'.op = "message" => \A t \in {lastOp'.t}, f \in Frames :
          (OnMessage(t, f) /\ f.json = "invalid")
              => /\ invoked' = <<>>
                 /\ readyState'[t] = "OPEN"
                 /\ UNCHANGED <<ws, readyState, reconnectAttempts, reconnectTimers,
                                heartbeatTimer, listeners>>]_vars

C10_Witness ==
    /\ lastOp.op = "message"
    /\ console = <<"Failed to parse WebSocket message:">>
    /\ invoked = <<>>
    /\ readyState[lastOp.t] = "OPEN"
    /\ listeners["x"] = <<"A", "B", "U">>

\* ------------------------------------------------- send() and disconnect()
\* C11: send(msg) while the current transport is not open writes nothing,
\* returns normally with a warning logged, and the message is not kept: every
\* write of a caller's message happens in the send() step itself, on the
\* open current transport; all other steps write heartbeat pings at most.
C11_DropWhenDisconnected ==
    /\ lastOp.op = "send" =>
          /\ returned = "void"
          /\ IF Connected
             THEN /\ Len(written) = 1
                  /\ written[1].t = ws
                  /\ written[1].msg \in OutboundMessages
                  /\ console = <<>>
             ELSE /\ written = <<>>
                  /\ console = <<"WebSocket is not connected">>
    /\ lastOp.op # "send" => \A i \in 1..Len(written) : written[i].msg = Ping

\* a send() on a transport that had opened and is no longer open is dropped
C11_Witness ==
    /\ lastOp.op = "send"
    /\ ws # 0 /\ currentOpened /\ readyState[ws] \in {"CLOSING", "CLOSED"}
    /\ written = <<>>
    /\ console = <<"WebSocket is not connected">>

\* the data field of a frame, as a listener would receive it
DataOf(frame) == [envelope |-> FALSE, json |-> "object", type |-> "", data |-> frame.data]

\* C12: end-to-end delivery: a message {type: T, data: D} arriving on an open
\* transport is handed exactly once, in that step, to every listener
\* registered on T at that moment, and each of them receives D (listeners
\* that do not unsubscribe from T during the dispatch).
C12_EndToEndDelivery ==
    [][lastOp'.op = "message" => \A t \in {lastOp'.t}, f \in Frames :
          (/\ OnMessage(t, f) /\ f.json = "object" /\ f.type \in Topics
           /\ f.data # "absent" /\ ~Unsubscribing(f.type))
              => /\ readyState[t] = "OPEN"
                 /\ Cbs(invoked') = listeners[f.type]
                 /\ \A i \in 1..Len(invoked') : invoked'[i].payload = DataOf(f)]_vars

EnvelopeOf(frame) == [envelope |-> TRUE, json |-> frame.json, type |-> frame.type, data |-> frame.data]

\* C14: payload selection: every listener called for a message receives the
\* message's data field when the message has one, whatever its value (falsy
\* values included), and the whole envelope only when it has none.
C14_PayloadSelection ==
    [][lastOp'.op = "message" => \A t \in {lastOp'.t}, f \in Frames :
          (OnMessage(t, f) /\ f.json = "object" /\ f.type \in Topics)
              => \A i \in 1..Len(invoked') :
                    invoked'[i].payload = IF f.data # "absent" THEN DataOf(f) ELSE EnvelopeOf(f)]_vars

\* ------------------------------------------------------ counter and status
\* C15: the reconnect attempt counter is 0 when the manager is created and
\* lies between 0 and maxReconnectAttempts in every reachable state.
C15_AttemptsBounded ==
    /\ reconnectAttempts \in 0..maxReconnectAttempts
    /\ ~loaded => reconnectAttempts = 0

\* the counter stands at its maximum and a further transport has closed
C15_Witness ==
    /\ reconnectAttempts = maxReconnectAttempts
    /\ lastOp.op = "close"
    /\ console = <<"WebSocket disconnected", "Max reconnection attempts reached">>

\* C16 as stated: isConnected() changes no manager state and returns true
\* exactly when the transport in ws has had its open event and not yet its
\* close event.
C16_TrueBetweenOpenAndClose ==
    [][lastOp'.op = "isConnected" =>
          /\ UNCHANGED <<ws, readyState, reconnectAttempts, listeners, reconnectTimers,
                         heartbeatTimer>>
          /\ returned' = "true" <=> (ws # 0 /\ currentOpened /\ readyState[ws] # "CLOSED")]_vars

\* C16: isConnected() changes no manager state (transport, attempt counter,
\* registry, timers) and returns true exactly when the transport in ws is
\* open: it has had its open event, close() has not been called on it by
\* disconnect() and its close event has not arrived; otherwise it returns false.
C16_IsConnectedPureRead ==
    [][lastOp'.op = "isConnected" =>
          /\ UNCHANGED <<ws, readyState, reconnectAttempts, listeners, reconnectTimers,
                         heartbeatTimer>>
          /\ returned' \in {"true", "false"}
          /\ returned' = "true" <=>
                (ws # 0 /\ currentOpened /\ readyState[ws] \notin {"CLOSING", "CLOSED"})]_vars

\* isConnected() answers false between disconnect() and the close event of a
\* transport that had opened
C16_Witness ==
    /\ lastOp.op = "isConnected"
    /\ returned = "false"
    /\ ws # 0 /\ currentOpened /\ readyState[ws] = "CLOSING"

\* ------------------------------------------------------ transports and retry
\* C17: once connect() has put a new transport in ws, the open, message and
\* close events of an earlier transport leave the attempt counter and the
\* pending retry timers as they were and invoke no listener.
C17_OldTransportInert ==
    [][(lastOp'.op \in {"open", "message", "close"} /\ ws # 0 /\ lastOp'.t # ws)
          => /\ reconnectAttempts' = reconnectAttempts
             /\ reconnectTimers' = reconnectTimers
             /\ invoked' = <<>>]_vars

\* C18: reconnect liveness: a close event arriving while the attempt counter
\* is below maxReconnectAttempts schedules exactly one retry timer; a retry
\* timer that fires constructs a new transport, which becomes the current one
\* and is connecting (the guard of connect() lets it through); the open event
\* of the current transport makes the manager connected; and, the timers
\* firing, a pending retry is followed by a further transport.
C18_ReconnectLiveness ==
    /\ [][(lastOp'.op = "close" /\ reconnectAttempts < maxReconnectAttempts)
             => Len(reconnectTimers') = Len(reconnectTimers) + 1]_vars
    /\ [][lastOp'.op = "reconnectTimer"
             => /\ Len(reconnectTimers') = Len(reconnectTimers) - 1
                /\ NumTransports' = NumTransports + 1
                /\ ws' = NumTransports'
                /\ readyState'[ws'] = "CONNECTING"]_vars
    /\ [][(lastOp'.op = "open" /\ lastOp'.t = ws) => Connected']_vars
    /\ \A n \in 0..(MaxSockets - 1) :
          (reconnectTimers # <<>> /\ NumTransports = n) ~> (NumTransports > n)

\* a transport closed, its retry timer fired, and the transport the timer
\* created has opened
C18_Witness ==
    /\ lastOp.op = "open" /\ lastOp.t = ws
    /\ Connected
    /\ callerConnects = 0
    /\ ws = 2 /\ readyState[1] = "CLOSED"
    /\ reconnectTimers = <<>>

\* C19: an error event of a transport changes neither the attempt counter,
\* the registry, the pending timers nor the transports; the attempt counter
\* grows and a retry timer is added only in the step of a close event; and a
\* transport has one close event at most: the event takes it from a state
\* other than CLOSED to CLOSED, where it stays, and consults the policy once
\* (one increment and one timer, or neither when the attempts are exhausted).
C19_ErrorAloneNoRecovery ==
    [][/\ lastOp'.op = "error" =>
             UNCHANGED <<ws, readyState, reconnectAttempts, listeners, reconnectTimers,
                         heartbeatTimer>>
       /\ (reconnectAttempts' > reconnectAttempts \/ Len(reconnectTimers') > Len(reconnectTimers))
             => lastOp'.op = "close"
       /\ lastOp'.op = "close" =>
             /\ readyState[lastOp'.t] \notin {"none", "CLOSED"}
             /\ readyState'[lastOp'.t] = "CLOSED"
             /\ IF reconnectAttempts < maxReconnectAttempts
                THEN /\ reconnectAttempts' = reconnectAttempts + 1
                     /\ Len(reconnectTimers') = Len(reconnectTimers) + 1
                ELSE UNCHANGED <<reconnectAttempts, reconnectTimers>>
       /\ \A t \in Transports : readyState[t] = "CLOSED" => readyState'[t] = "CLOSED"]_vars

\* an error event on an open transport, with a registered listener, left
\* everything in place: no retry pending, no further transport
C19_Witness ==
    /\ lastOp.op = "error"
    /\ readyState[lastOp.t] = "OPEN"
    /\ console = <<"WebSocket error:">>
    /\ reconnectAttempts = 0 /\ reconnectTimers = <<>>
    /\ NumListeners(listeners) = 1
    /\ NumTransports = 1

\* ------------------------------------------------------------------ topics
\* a is b with some of its elements left out
RECURSIVE IsSubSeq(_, _)
IsSubSeq(a, b) ==
    IF a = <<>> THEN TRUE
    ELSE IF b = <<>> THEN FALSE
    ELSE IF Head(a) = Head(b) THEN IsSubSeq(Tail(a), Tail(b))
    ELSE IsSubSeq(a, Tail(b))

\* C20: topics are independent: on(T, cb) and off(T, cb) leave the listener
\* sequence of every topic other than T as it was, also when cb is registered
\* there; a message of type T calls entries of T's sequence only, and a
\* message whose type has no sequence calls nothing.
C20_TopicsIndependent ==
    [][/\ lastOp'.op = "on" =>
             \A T \in Topics, cb \in Callbacks :
                 On(T, cb) => \A T2 \in Topics \ {T} : listeners'[T2] = listeners[T2]
       /\ lastOp'.op = "off" =>
             \A T \in Topics, cb \in Callbacks :
                 Off(T, cb) => \A T2 \in Topics \ {T} : listeners'[T2] = listeners[T2]
       /\ lastOp'.op = "message" =>
             \A f \in Frames :
                 OnMessage(lastOp'.t, f) =>
                     IF TopicOf(f) \in Topics
                     THEN IsSubSeq(Cbs(invoked'), listeners[TopicOf(f)])
                     ELSE invoked' = <<>>]_vars

\* callback A is registered under both topics, differently often, and a
\* message of type x has called the one entry of x
C20_Witness ==
    /\ lastOp.op = "message"
    /\ listeners["x"] = <<"A">>
    /\ listeners["y"] = <<"B", "A">>
    /\ Cbs(invoked) = <<"A">>

C22_HeartbeatEndsWithTransport ==
    [][/\ \A i \in 1..Len(written') :
             written'[i].msg = Ping => readyState'[written'[i].t] = "OPEN"
       /\ (lastOp'.op = "heartbeat" /\ readyState[lastOp'.t] = "CLOSED")
             => /\ written' = <<>>
                /\ heartbeatTimer[lastOp'.t]
                /\ heartbeatTimer' = [heartbeatTimer EXCEPT ![lastOp'.t] = FALSE]
       /\ \A t \in Transports :
             (readyState[t] = "CLOSED" /\ ~heartbeatTimer[t]) => ~heartbeatTimer'[t]]_vars

\* the last tick of a closed transport, fired while its successor is open
C22_Witness ==
    /\ lastOp.op = "heartbeat"
    /\ readyState[lastOp.t] = "CLOSED"
    /\ ~heartbeatTimer[lastOp.t]
    /\ written = <<>>
    /\ Connected /\ ws # lastOp.t /\ heartbeatTimer[ws]

\* ----------------------------------------------------- one chain of retries
\* the transports that exist and have not closed
NonClosed == {t \in Transports : readyState[t] \in {"CONNECTING", "OPEN", "CLOSING"}}

\* C23: when only the auto-connect and the retry timers call connect(), at
\* most one transport is not closed, at most one retry timer is pending, and
\* no retry timer is pending while a transport is connecting or open.
C23_SingleChain ==
    /\ Cardinality(NonClosed) <= 1
    /\ Len(reconnectTimers) <= 1
    /\ reconnectTimers # <<>> => \A t \in Transports : readyState[t] \notin {"CONNECTING", "OPEN"}

\* the second transport of the chain has opened and closed, and its retry is pending
C23_Witness ==
    /\ NumTransports = 2
    /\ NonClosed = {}
    /\ everOpened /\ lastOp.op = "close" /\ lastOp.t = 2
    /\ Len(reconnectTimers) = 1

\* ------------------------------------------------ unsubscribing in dispatch
\* the entries of a sequence of callbacks other than the one-shot listener
Others(s) == SelectSeq(s, LAMBDA cb : cb # "U")

\* C24: re-entrant unsubscribe: when a listener of T calls off(T, itself)
\* while a message of type T is being dispatched, every other listener that
\* was registered on T when the dispatch started is called exactly once, in order.
C24_ReentrantUnsubscribe ==
    [][lastOp'.op = "message" => \A t \in {lastOp'.t}, f \in Frames :
          (/\ OnMessage(t, f) /\ f.json = "object" /\ f.type \in Topics
           /\ Unsubscribing(f.type))
              => Others(Cbs(invoked')) = Others(listeners[f.type])]_vars

\* ---------------------------------------------------- on() then off()
\* s without its first entry equal to cb
RECURSIVE WithoutFirst(_, _)
WithoutFirst(s, cb) ==
    IF s = <<>> THEN <<>>
    ELSE IF Head(s) = cb THEN Tail(s)
    ELSE <<Head(s)>> \o WithoutFirst(Tail(s), cb)

Registered(s, cb) == \E i \in 1..Len(s) : s[i] = cb

C26_CounterWriters ==
    [][/\ lastOp'.op = "open" => reconnectAttempts' = 0
       /\ lastOp'.op = "close" =>
             reconnectAttempts' = IF reconnectAttempts < maxReconnectAttempts
                                  THEN reconnectAttempts + 1 ELSE reconnectAttempts
       /\ lastOp'.op \notin {"open", "close"} => reconnectAttempts' = reconnectAttempts]_vars

\* disconnect() was called while the counter stood at 2, and it still does
C26_Witness ==
    /\ lastOp.op = "disconnect"
    /\ reconnectAttempts = 2

\* ------------------------------------------------------------ the log stream
\* stream sockets that are connecting or open, and those not yet CLOSED
LiveLogSockets == {k \in LogSockets : logSockets[k] \in {"CONNECTING", "OPEN"}}
NonClosedLogSockets == {k \in LogSockets : logSockets[k] \in {"CONNECTING", "OPEN", "CLOSING"}}

\* C27 as stated: a stream socket is constructed only when autoRefresh
\* becomes true; close() is called on it when autoRefresh becomes false or the
\* page unmounts; at most one stream socket is in a state other than CLOSED;
\* a close event constructs no socket.
C27_AtMostOneNonClosed ==
    [][/\ NumLogSockets' > NumLogSockets =>
             (~autoRefresh /\ autoRefresh' /\ NumLogSockets' = NumLogSockets + 1)
       /\ ((autoRefresh /\ ~autoRefresh') \/ (logsMounted = "mounted" /\ logsMounted' = "unmounted"))
             => LiveLogSockets' = {}
       /\ Cardinality(NonClosedLogSockets') <= 1
       /\ lastOp'.op = "logClose" => NumLogSockets' = NumLogSockets]_vars

\* C27: a stream socket is constructed only when autoRefresh becomes true;
\* close() is called on it when autoRefresh becomes false or the page
\* unmounts; at most one stream socket is connecting or open, while sockets
\* on which close() was called may still be closing; a close event, also one
\* that arrives while autoRefresh is true, constructs no socket and changes
\* neither autoRefresh nor the socket the effect holds.
C27_LogStreamLifecycle ==
    [][/\ NumLogSockets' > NumLogSockets =>
             /\ ~autoRefresh /\ autoRefresh'
             /\ NumLogSockets' = NumLogSockets + 1
             /\ lastOp'.op = "setAutoRefresh"
       /\ ((autoRefresh /\ ~autoRefresh') \/ (logsMounted = "mounted" /\ logsMounted' = "unmounted"))
             => /\ LiveLogSockets' = {}
                /\ \A k \in LiveLogSockets : logSockets'[k] = "CLOSING"
       /\ Cardinality(LiveLogSockets') <= 1
       /\ lastOp'.op = "logClose" =>
             /\ NumLogSockets' = NumLogSockets
             /\ UNCHANGED <<autoRefresh, effectWs>>]_vars

\* autoRefresh was switched on, off and on again: the first socket is still
\* closing while the second is connecting
C27_Witness ==
    /\ lastOp.op = "setAutoRefresh"
    /\ autoRefresh
    /\ logSockets[1] = "CLOSING"
    /\ logSockets[2] = "CONNECTING"
    /\ effectWs = 2

\* -------------------------------------------------------------- the log buffer
\* C28: the real-time log buffer never holds more than 100 entries: a
\* log_entry message puts its data at the end and keeps before it the most
\* recent 99 of the entries held, in their order; every other step, messages
\* of another type and unparseable frames included, leaves the buffer as it was.
C28_LogBufferBounded ==
    [][/\ Len(realTimeLogs') <= 100
       /\ arrivals' # arrivals =>
             /\ lastOp'.op = "logMessage"
             /\ realTimeLogs'[Len(realTimeLogs')] = arrivals'
             /\ Len(realTimeLogs') = IF Len(realTimeLogs) < 100 THEN Len(realTimeLogs) + 1 ELSE 100
             /\ \A i \in 1..(Len(realTimeLogs') - 1) :
                   realTimeLogs'[i] = realTimeLogs[Len(realTimeLogs) - (Len(realTimeLogs') - 1) + i]
       /\ (arrivals' = arrivals /\ lastOp'.op # "logsMount") => realTimeLogs' = realTimeLogs]_vars

\* the 102nd entry has arrived: the buffer holds entries 3 to 102
C28_Witness ==
    /\ lastOp.op = "logMessage"
    /\ arrivals = 102
    /\ Len(realTimeLogs) = 100
    /\ realTimeLogs[1] = 3 /\ realTimeLogs[100] = 102

\* ------------------------------------------------------------- the task cache
\* C29: handleTaskUpdate never adds, removes or reorders tasks: for a payload
\* with id X, the cached task with id X takes the payload's fields and keeps
\* its other fields, every other task stays as it was, and an undefined cache,
\* an empty one and one without a task X stay as they were.
C29_TaskUpdateInPlace ==
    [][lastOp'.op = "taskUpdate" => \A data \in TaskPayloads :
          HandleTaskUpdate(data) =>
              LET old == tasksCache.tasks
                  new == tasksCache'.tasks
              IN IF ~tasksCache.defined THEN tasksCache' = tasksCache
                 ELSE /\ tasksCache'.defined
                      /\ Len(new) = Len(old)
                      /\ \A i \in 1..Len(old) :
                            /\ new[i].id = old[i].id
                            /\ old[i].id # data.id => new[i] = old[i]
                            /\ old[i].id = data.id =>
                                  /\ new[i].status =
                                        IF data.status # "absent" THEN data.status ELSE old[i].status
                                  /\ new[i].progress =
                                        IF data.progress # "absent" THEN data.progress
                                        ELSE old[i].progress
                      /\ (\A i \in 1..Len(old) : old[i].id # data.id) => new = old]_vars

\* an update has been applied to a cache of two tasks, which are both still there, in order
C29_Witness ==
    /\ lastOp.op = "taskUpdate"
    /\ tasksCache.defined
    /\ tasksCache.tasks = <<[id |-> "t1", status |-> "stopped", progress |-> "10%"],
                            [id |-> "t2", status |-> "running", progress |-> "50%"]>>

====
